---- MODULE Spec2Model ----
(***************************************************************************)
(* mastodon_digest, src/run.py: the __main__ block, run() and              *)
(* fetch_posts_and_boosts() as a state machine.                            *)
(*                                                                         *)
(* The Mastodon client is an external collaborator: what it returns        *)
(* (pages, the outcome of the server-side filter, a raised exception) is   *)
(* chosen nondeterministically.  A page that is None and a page that is    *)
(* the empty list are both falsy in `while response`; both are <<>> here.  *)
(***************************************************************************)
EXTENDS Integers, Sequences, FiniteSets

\* ------------------------------------------------------------ bounds
MaxLimit == 2        \* value TIMELINE_LIMIT is scaled down to
MaxPage == 2         \* longest page the collaborator returns
MaxUrl == 2          \* number of distinct identity URLs of clean posts
MaxList == 25        \* longest collected list the selection is run on
MaxMod == 13         \* most distinct scores in such a list
MaxShort == 2        \* longest list on the other side of the selection

\* ------------------------------------------------------------ constants
TIMELINE_LIMIT == MaxLimit   \* 1000 in the source, scaled to the bound

Thresholds == {90, 95, 98}   \* lax, normal, strict

NoneVal == "None"                       \* os.getenv of an unset variable
Viewer == "me"                          \* the non-empty MASTODON_USERNAME
Environments ==
    [token : {NoneVal, "", "tok"}, base_url : {NoneVal, "", "url"},
     username : {NoneVal, "", Viewer}]

\* Python truthiness of an os.getenv result.
Truthy(v) == v # NoneVal /\ v # ""

\* ------------------------------------------------------------ post dicts
NoReblog == [url |-> 0]

Status(u, a, r, f, b, s) ==
    [url |-> u, acct |-> a, reblogged |-> r, favourited |-> f,
     bookmarked |-> b, score |-> s]

\* The underlying posts the timeline can show, one dict per identity URL.
\* URLs 1..MaxUrl are posts by alice the viewer has not touched; the next four
\* are a favourited, a boosted, a bookmarked post and a post of the viewer's.
CleanPosts == {Status(u, "alice", FALSE, FALSE, FALSE, u) : u \in 1..MaxUrl}

Favourited == Status(MaxUrl + 1, "alice", FALSE, TRUE, FALSE, 1)
Reblogged == Status(MaxUrl + 2, "alice", TRUE, FALSE, FALSE, 2)
Bookmarked == Status(MaxUrl + 3, "bob", FALSE, FALSE, TRUE, 3)
OwnPost == Status(MaxUrl + 4, Viewer, FALSE, FALSE, FALSE, 3)

PostDicts == CleanPosts \cup {Favourited, Reblogged, Bookmarked, OwnPost}

\* A timeline entry: a direct post (reblog is NoReblog, i.e. None) or a
\* boost wrapper written by a booster around an underlying post.
Direct(p) == [status |-> p, reblog |-> NoReblog]
Wrapper(a, p) ==
    [status |-> Status(100 + p.url, a, FALSE, FALSE, FALSE, 0), reblog |-> p]

\* Every post directly, every clean post boosted by bob, URL 1 boosted by
\* carol as well, and a boost of a post the viewer has favourited.
TimelineEntries ==
    {Direct(p) : p \in PostDicts}
        \cup {Wrapper("bob", p) : p \in CleanPosts}
        \cup {Wrapper("carol", Status(1, "alice", FALSE, FALSE, FALSE, 1)),
              Wrapper("bob", Favourited)}

RECURSIVE SeqsUpTo(_, _)
SeqsUpTo(S, n) ==
    IF n = 0 THEN {<<>>}
    ELSE LET shorter == SeqsUpTo(S, n - 1)
         IN  shorter \cup {Append(s, e) : s \in {t \in shorter : Len(t) = n - 1}, e \in S}

Pages == SeqsUpTo(TimelineEntries, MaxPage)

VARIABLES
    pc,                 \* position in __main__ / run / fetch_posts_and_boosts
    env,                \* MASTODON_TOKEN, MASTODON_BASE_URL, MASTODON_USERNAME
    threshold,          \* thresholds[args.threshold]
    called,             \* collaborator calls made so far (history)
    response,           \* the current page
    posts, boosts, seen_post_urls, total_posts_seen,
    raw_examined,       \* history: pre-filter entries of the pages the loop took
    first_order,        \* history: url and provenance of each URL's first examined entry
    all_post_scores, all_boost_scores, threshold_posts, threshold_boosts,
    percentile_calls,   \* history: evaluations of stats.percentileofscore
    html_written, browser_opened,
    prev                \* history: inputs and outputs of an earlier selection

vars == <<pc, env, threshold, called, response,
          posts, boosts, seen_post_urls, total_posts_seen,
          raw_examined, first_order,
          all_post_scores, all_boost_scores, threshold_posts, threshold_boosts,
          percentile_calls, html_written, browser_opened, prev>>

loopVars == <<posts, boosts, seen_post_urls, total_posts_seen,
              raw_examined, first_order>>
fetchVars == <<response, loopVars>>
selVars == <<all_post_scores, all_boost_scores, threshold_posts, threshold_boosts,
             percentile_calls>>
outVars == <<html_written, browser_opened>>

NoRun == [run |-> FALSE]

Min(a, b) == IF a < b THEN a ELSE b

\* raw_examined stops counting here, above every value the cap allows.
RawCap == TIMELINE_LIMIT + 1

\* ------------------------------------------------------------ __main__
Init ==
    /\ pc = "main"
    /\ env \in Environments
    /\ threshold \in Thresholds
    /\ called = {}
    /\ response = <<>>
    /\ posts = <<>>
    /\ boosts = <<>>
    /\ seen_post_urls = {}
    /\ total_posts_seen = 0
    /\ raw_examined = 0
    /\ first_order = <<>>
    /\ all_post_scores = <<>>
    /\ all_boost_scores = <<>>
    /\ threshold_posts = <<>>
    /\ threshold_boosts = <<>>
    /\ percentile_calls = 0
    /\ html_written = FALSE
    /\ browser_opened = FALSE
    /\ prev = NoRun

\* The test of MASTODON_USERNAME left out.
ConfigCompleteNoUsername(e) == Truthy(e.token) /\ Truthy(e.base_url)

\* The three `if not ...: sys.exit(...)` tests.
ConfigComplete(e) == Truthy(e.token) /\ Truthy(e.base_url) /\ Truthy(e.username)

MainExit ==
    /\ pc = "main"
    /\ ~ConfigComplete(env)
    /\ pc' = "exit"
    /\ UNCHANGED <<env, threshold, called, fetchVars, selVars, outVars, prev>>

MainRun ==
    /\ pc = "main"
    /\ ConfigComplete(env)
    /\ pc' = "run"
    /\ UNCHANGED <<env, threshold, called, fetchVars, selVars, outVars, prev>>

\* The exception swallowed: the run goes on to the selection.
RaiseSuppressed(call) ==
    /\ called' = called \cup {call}
    /\ pc' = "scores"

\* An exception raised by a collaborator call: nothing catches it.
Raise(call) ==
    /\ called' = called \cup {call}
    /\ pc' = "raised"

\* ------------------------------------------------------------ run
CreateClient ==
    /\ pc = "run"
    /\ \/ called' = called \cup {"Mastodon"} /\ pc' = "filters"
       \/ Raise("Mastodon")
    /\ UNCHANGED <<env, threshold, fetchVars, selVars, outVars, prev>>

\* ------------------------------------------------------------ fetch_posts_and_boosts
Filters ==
    /\ pc = "filters"
    /\ \/ called' = called \cup {"filters"} /\ pc' = "timeline"
       \/ Raise("filters")
    /\ UNCHANGED <<env, threshold, fetchVars, selVars, outVars, prev>>

Timeline ==
    /\ pc = "timeline"
    /\ \/ /\ called' = called \cup {"timeline"}
          /\ response' \in Pages
          /\ pc' = "while"
       \/ Raise("timeline") /\ UNCHANGED response
    /\ UNCHANGED <<env, threshold, loopVars, selVars, outVars, prev>>

\* `while response and total_posts_seen < TIMELINE_LIMIT`
LoopCondition(resp, seen) == resp # <<>> /\ seen < TIMELINE_LIMIT

\* The subsequence of s at the positions in keep.
RECURSIVE Keep(_, _)
Keep(s, keep) ==
    IF s = <<>> THEN <<>>
    ELSE LET rest == Keep(Tail(s), {i - 1 : i \in keep \ {1}})
         IN  IF 1 \in keep THEN <<Head(s)>> \o rest ELSE rest

\* What filters_apply can return for a page: any subsequence of it.
FilterOutcomes(resp) == {Keep(resp, keep) : keep \in SUBSET (1..Len(resp))}

\* The test made after `post` was rebound to the boosted post.
IsBoostAfterUnwrap(entry) == FALSE

\* `if post["reblog"] is not None: post = post["reblog"]; boost = True`
IsBoost(entry) == entry.reblog # NoReblog
Underlying(entry) == IF IsBoost(entry) THEN entry.reblog ELSE entry.status

\* The membership test left out.
NotSeenAlways(url, seen) == TRUE

\* `if scored_post.url not in seen_post_urls`
NotSeen(url, seen) == url \notin seen

\* The local filters without the bookmark test.
LocalFilterNoBookmark(p, username) ==
    /\ ~p.reblogged
    /\ ~p.favourited
    /\ p.acct # username

\* The local filters: not a post I have interacted with, not my post.
LocalFilter(p, username) ==
    /\ ~p.reblogged
    /\ ~p.favourited
    /\ ~p.bookmarked
    /\ p.acct # username

Urls(list) == [i \in 1..Len(list) |-> list[i].url]
Range(s) == {s[i] : i \in 1..Len(s)}

\* The locals of the loop, with the history variable.
Locals ==
    [posts |-> posts, boosts |-> boosts, seen_post_urls |-> seen_post_urls,
     total_posts_seen |-> total_posts_seen, first_order |-> first_order]

\* One iteration of `for post in filtered_response`.
ForBody(acc, entry, username) ==
    LET boost == IsBoost(entry)
        scored_post == Underlying(entry)
        keep == /\ NotSeen(scored_post.url, acc.seen_post_urls)
                /\ LocalFilter(scored_post, username)
    IN  [posts |-> IF keep /\ ~boost THEN Append(acc.posts, scored_post) ELSE acc.posts,
         boosts |-> IF keep /\ boost THEN Append(acc.boosts, scored_post) ELSE acc.boosts,
         seen_post_urls |-> IF keep THEN acc.seen_post_urls \cup {scored_post.url}
                            ELSE acc.seen_post_urls,
         total_posts_seen |-> acc.total_posts_seen + 1,
         first_order |->
             LET wrapped == entry.reblog # NoReblog
                 url == IF wrapped THEN entry.reblog.url ELSE entry.status.url
             IN  IF \E i \in 1..Len(acc.first_order) : acc.first_order[i].url = url
                 THEN acc.first_order
                 ELSE Append(acc.first_order, [url |-> url, boost |-> wrapped])]

RECURSIVE ForLoop(_, _, _)
ForLoop(acc, filtered_response, username) ==
    IF filtered_response = <<>> THEN acc
    ELSE ForLoop(ForBody(acc, Head(filtered_response), username),
                 Tail(filtered_response), username)

\* One pass through the body of the while loop: filters_apply, the for loop,
\* fetch_previous.  Either call can raise; the for loop has then run or not.
LoopIteration ==
    /\ pc = "while"
    /\ LoopCondition(response, total_posts_seen)
    /\ \/ /\ Raise("filters_apply")
          /\ UNCHANGED <<response, loopVars>>
       \/ \E filtered_response \in FilterOutcomes(response) :
            LET acc == ForLoop(Locals, filtered_response, env.username)
            IN  /\ posts' = acc.posts
                /\ boosts' = acc.boosts
                /\ seen_post_urls' = acc.seen_post_urls
                /\ total_posts_seen' = acc.total_posts_seen
                /\ first_order' = acc.first_order
                /\ raw_examined' = Min(raw_examined + Len(response), RawCap)
                /\ \/ /\ called' = called \cup {"filters_apply", "fetch_previous"}
                      /\ response' \in Pages
                      /\ pc' = "while"
                   \/ /\ called' = called \cup {"filters_apply", "fetch_previous"}
                      /\ pc' = "raised"
                      /\ UNCHANGED response
    /\ UNCHANGED <<env, threshold, selVars, outVars, prev>>

\* The loop condition fails: `return posts, boosts`.
LoopExit ==
    /\ pc = "while"
    /\ ~LoopCondition(response, total_posts_seen)
    /\ pc' = "scores"
    /\ UNCHANGED <<env, threshold, called, fetchVars, selVars, outVars, prev>>

Collect == Filters \/ Timeline \/ LoopIteration \/ LoopExit

\* ------------------------------------------------------------ selection
\* `p.get_score(scorer)`: the scorer is a pure function of the post.
get_score(p) == p.score

\* `[p.get_score(scorer) for p in posts]`
ScoresOf(list) == [i \in 1..Len(list) |-> get_score(list[i])]

CountLess(a, score) == Cardinality({i \in 1..Len(a) : a[i] < score})
CountLessEqual(a, score) == Cardinality({i \in 1..Len(a) : a[i] <= score})

\* kind "strict": the share of the sample strictly below the score.
percentileofscoreStrict(a, score) ==
    [num |-> CountLess(a, score) * 100, den |-> Len(a)]

\* scipy.stats.percentileofscore(a, score), kind "rank":
\*   (left + right + (1 if right > left else 0)) * 50 / n
\* kept as the fraction num / den.
percentileofscore(a, score) ==
    LET left == CountLess(a, score)
        right == CountLessEqual(a, score)
    IN  [num |-> (left + right + (IF right > left THEN 1 ELSE 0)) * 50,
         den |-> Len(a)]

\* The comparison made inclusive.
AtOrAboveThreshold(pct, t) == pct.num >= t * pct.den

\* `percentileofscore(...) > threshold`
AboveThreshold(pct, t) == pct.num > t * pct.den

\* `[p for p in list if percentileofscore(scores, p.get_score(scorer)) > threshold]`
Retained(list, scores, t) ==
    LET Test(p) == AboveThreshold(percentileofscore(scores, get_score(p)), t)
    IN  SelectSeq(list, Test)

\* One score sample for both lists.
ScoresPooled ==
    /\ pc = "scores"
    /\ all_post_scores' = ScoresOf(posts \o boosts)
    /\ all_boost_scores' = ScoresOf(posts \o boosts)
    /\ percentile_calls' = 0
    /\ pc' = "threshold_posts"
    /\ UNCHANGED <<env, threshold, called, fetchVars, threshold_posts,
                   threshold_boosts, outVars, prev>>

Scores ==
    /\ pc = "scores"
    /\ all_post_scores' = ScoresOf(posts)
    /\ all_boost_scores' = ScoresOf(boosts)
    /\ percentile_calls' = 0
    /\ pc' = "threshold_posts"
    /\ UNCHANGED <<env, threshold, called, fetchVars, threshold_posts,
                   threshold_boosts, outVars, prev>>

ThresholdPosts ==
    /\ pc = "threshold_posts"
    /\ threshold_posts' = Retained(posts, all_post_scores, threshold)
    /\ percentile_calls' = percentile_calls + Len(posts)
    /\ pc' = "threshold_boosts"
    /\ UNCHANGED <<env, threshold, called, fetchVars, all_post_scores,
                   all_boost_scores, threshold_boosts, outVars, prev>>

ThresholdBoosts ==
    /\ pc = "threshold_boosts"
    /\ threshold_boosts' = Retained(boosts, all_boost_scores, threshold)
    /\ percentile_calls' = percentile_calls + Len(boosts)
    /\ pc' = "write"
    /\ UNCHANGED <<env, threshold, called, fetchVars, all_post_scores,
                   all_boost_scores, threshold_posts, outVars, prev>>

Select == Scores \/ ThresholdPosts \/ ThresholdBoosts

\* ------------------------------------------------------------ output
\* The HTML is assembled and written to the temporary file.
WriteHtml ==
    /\ pc = "write"
    /\ html_written' = TRUE
    /\ pc' = "open"
    /\ UNCHANGED <<env, threshold, called, fetchVars, selVars, browser_opened, prev>>

OpenBrowser ==
    /\ pc = "open"
    /\ browser_opened' = TRUE
    /\ pc' = "done"
    /\ UNCHANGED <<env, threshold, called, fetchVars, selVars, html_written, prev>>

Output == WriteHtml \/ OpenBrowser

Next == MainExit \/ MainRun \/ CreateClient \/ Collect \/ Select \/ Output

Spec == Init /\ [][Next]_vars

\* The interpreter keeps running the program until it exits or raises.
FairSpec == Spec /\ WF_vars(Next)

\* ------------------------------------------------------------ selection alone
\* The selection step of run on collected lists of up to MaxList posts.  The
\* i-th post of a list has score i % d, so that lists with tied and with
\* distinct top scores of every length occur.
ScoredList(base, n, d) ==
    [i \in 1..n |-> Status(base + i, "alice", FALSE, FALSE, FALSE, i % d)]

LongLists(base) == {ScoredList(base, n, d) : n \in 0..MaxList, d \in 1..MaxMod}
ShortLists(base) == {ScoredList(base, n, d) : n \in 0..MaxShort, d \in 1..2}

\* Boosts carry URLs no post of the posts list has.
BoostsBase == 2 * MaxList

SelInit ==
    /\ pc = "scores"
    /\ env = [token |-> "tok", base_url |-> "url", username |-> Viewer]
    /\ threshold \in Thresholds
    /\ called = {"Mastodon", "filters", "timeline"}
    /\ response = <<>>
    /\ \/ posts \in LongLists(0) /\ boosts \in ShortLists(BoostsBase)
       \/ posts \in ShortLists(0) /\ boosts \in LongLists(BoostsBase)
    /\ seen_post_urls = Range(Urls(posts)) \cup Range(Urls(boosts))
    /\ total_posts_seen = 0
    /\ raw_examined = 0
    /\ first_order = <<>>
    /\ all_post_scores = <<>>
    /\ all_boost_scores = <<>>
    /\ threshold_posts = <<>>
    /\ threshold_boosts = <<>>
    /\ percentile_calls = 0
    /\ html_written = FALSE
    /\ browser_opened = FALSE
    /\ prev = NoRun

\* A second selection with the same scorer and threshold, in which one of the
\* two lists is replaced and the other kept.
Rerun ==
    /\ pc = "write"
    /\ prev = NoRun
    /\ prev' = [run |-> TRUE, posts |-> posts, boosts |-> boosts,
                threshold_posts |-> threshold_posts,
                threshold_boosts |-> threshold_boosts]
    /\ \/ boosts' \in ShortLists(BoostsBase) \ {boosts} /\ UNCHANGED posts
       \/ posts' \in ShortLists(0) \ {posts} /\ UNCHANGED boosts
    /\ pc' = "scores"
    /\ UNCHANGED <<env, threshold, called, response, seen_post_urls,
                   total_posts_seen, raw_examined, first_order, selVars, outVars>>

SelNext == Select \/ Rerun

SelSpec == SelInit /\ [][SelNext]_vars

\* ------------------------------------------------------------ properties
AllCollected == posts \o boosts

\* The locals at every point of the for loop over the page at hand, for
\* every outcome of filters_apply; the locals as they are when no page is
\* being worked on.
LoopPoints ==
    IF pc = "while" /\ LoopCondition(response, total_posts_seen)
    THEN UNION {{ForLoop(Locals, SubSeq(f, 1, k), env.username) : k \in 0..Len(f)} :
                    f \in FilterOutcomes(response)}
    ELSE {Locals}

\* C1: no identity URL occurs twice in the posts list and the boosts list
\* taken together, during the collection and after it has returned.
C1_NoDuplicateUrls ==
    \A acc \in LoopPoints :
        LET all == acc.posts \o acc.boosts
        IN  \A i, j \in 1..Len(all) : all[i].url = all[j].url => i = j

\* Three entries with URL 1 were examined and the collector has returned
\* one entry for them.
C1_Witness ==
    /\ pc = "scores"
    /\ total_posts_seen = 3
    /\ first_order = <<[url |-> 1, boost |-> FALSE]>>
    /\ Len(AllCollected) = 1

ViewerActedOn(p) ==
    p.acct = env.username \/ p.reblogged \/ p.favourited \/ p.bookmarked

\* C2: a timeline entry whose underlying post is the viewer's or is boosted,
\* favourited or bookmarked by the viewer never has that post in either list.
C2_Exclusion ==
    \A acc \in LoopPoints, e \in TimelineEntries :
        LET p == IF e.reblog = NoReblog THEN e.status ELSE e.reblog
            lists == Range(acc.posts) \cup Range(acc.boosts)
        IN  ViewerActedOn(p) =>
                /\ p \notin lists
                /\ \A q \in lists : q.url # p.url

\* A boost of a favourited post and a post of the viewer's were examined
\* beside a post that was collected.
C2_Witness ==
    /\ pc = "scores"
    /\ \E i \in 1..Len(first_order) :
           first_order[i] = [url |-> Favourited.url, boost |-> TRUE]
    /\ \E i \in 1..Len(first_order) : first_order[i].url = OwnPost.url
    /\ Len(AllCollected) = 1

\* C3: the number of raw timeline entries in the pages the loop has taken
\* never exceeds the cap.
C3_CapIsHard == raw_examined <= TIMELINE_LIMIT

\* C7: with MASTODON_TOKEN, MASTODON_BASE_URL or MASTODON_USERNAME unset or
\* empty the program is at its start or has exited; run is not entered, no
\* client is created, no collaborator call is made and nothing is written.
C7_FailFast ==
    (\E v \in {env.token, env.base_url, env.username} : v = NoneVal \/ v = "")
        => /\ pc \in {"main", "exit"}
           /\ called = {}
           /\ ~html_written /\ ~browser_opened

\* The program has exited on an empty MASTODON_USERNAME alone.
C7_Witness ==
    /\ pc = "exit"
    /\ env = [token |-> "tok", base_url |-> "url", username |-> ""]

\* C8: after a collaborator call has raised there is no HTML file and no
\* browser window, and the file exists only once the collection loop has
\* ended and both lists have been through the selection.
C8_NoPartialDigest ==
    /\ pc = "raised" => ~html_written /\ ~browser_opened
    /\ browser_opened => html_written
    /\ html_written =>
           /\ pc \in {"open", "done"}
           /\ {"Mastodon", "filters", "timeline"} \subseteq called
           /\ ~(response # <<>> /\ total_posts_seen < TIMELINE_LIMIT)
           /\ all_post_scores = [i \in 1..Len(posts) |-> posts[i].score]
           /\ all_boost_scores = [i \in 1..Len(boosts) |-> boosts[i].score]
           /\ Range(threshold_posts) \subseteq Range(posts)
           /\ Range(threshold_boosts) \subseteq Range(boosts)
           /\ percentile_calls = Len(posts) + Len(boosts)

\* fetch_previous has raised after posts were collected; nothing is written.
C8_Witness ==
    /\ pc = "raised"
    /\ "fetch_previous" \in called
    /\ Len(posts) >= 1 /\ Len(boosts) >= 1
    /\ ~html_written

\* C9: once the first page has been asked for, the collector terminates:
\* it returns or a collaborator call raises.
C9_Terminates == (pc = "timeline") ~> (pc \in {"scores", "raised"})

Clean(u) == u \in 1..MaxUrl

\* C10: the URLs of the posts list are the URLs whose first examined entry
\* was a direct post, those of the boosts list the URLs whose first examined
\* entry was a boost, both in the order of these first entries (URLs of
\* locally excluded posts left out).
C10_FirstEncounteredWins ==
    LET FirstDirect(f) == Clean(f.url) /\ ~f.boost
        FirstBoost(f) == Clean(f.url) /\ f.boost
        firstUrls(s) == [i \in 1..Len(s) |-> s[i].url]
    IN  \A acc \in LoopPoints :
            /\ Urls(acc.posts) = firstUrls(SelectSeq(acc.first_order, FirstDirect))
            /\ Urls(acc.boosts) = firstUrls(SelectSeq(acc.first_order, FirstBoost))

\* URL 1 was met as a boost first and URL 2 as a direct post first, a third
\* examined entry repeated one of them, and each list holds one entry.
C10_Witness ==
    /\ pc = "scores"
    /\ total_posts_seen = 3
    /\ first_order = <<[url |-> 1, boost |-> TRUE], [url |-> 2, boost |-> FALSE]>>
    /\ Urls(boosts) = <<1>>
    /\ Urls(posts) = <<2>>

\* Twice the mean rank of p's score among the scores of list, ranks counted
\* from 1 and tied scores sharing the mean of their ranks.
TwiceMeanRank(list, p) ==
    LET lower == Cardinality({i \in 1..Len(list) : list[i].score < p.score})
        tied == Cardinality({i \in 1..Len(list) : list[i].score = p.score})
    IN  2 * lower + tied + 1

\* The percentile rank of p in its own list, 100 * mean rank / length,
\* compared with a whole number t.
RankAbove(list, p, t) == TwiceMeanRank(list, p) * 50 > t * Len(list)
RankEquals(list, p, t) == TwiceMeanRank(list, p) * 50 = t * Len(list)

SelectedFrom(list, retained) ==
    LET In(p) == p \in Range(retained)
    IN  /\ \A i \in 1..Len(list) :
               list[i] \in Range(retained) <=> RankAbove(list, list[i], threshold)
        /\ retained = SelectSeq(list, In)

PostsSelected == pc \in {"threshold_boosts", "write"}
BoostsSelected == pc = "write"

\* C4: a post is retained exactly when its percentile rank in its own list
\* is strictly above the threshold, and the retained posts are a sub-sequence
\* of the list; for the posts list and for the boosts list.
C4_StrictlyAbove ==
    /\ PostsSelected => SelectedFrom(posts, threshold_posts)
    /\ BoostsSelected => SelectedFrom(boosts, threshold_boosts)

\* At threshold 98 a list of MaxList posts has posts ranked at exactly 98,
\* and they are not retained.
C4_Witness ==
    /\ BoostsSelected
    /\ threshold = 98
    /\ Len(posts) = 25
    /\ \E i \in 1..Len(posts) :
           /\ RankEquals(posts, posts[i], 98)
           /\ posts[i] \notin Range(threshold_posts)

\* Exactly-at-threshold posts of the other two thresholds, in either list.
C4_WitnessAt90 ==
    /\ BoostsSelected
    /\ threshold = 90
    /\ \E i \in 1..Len(boosts) :
           /\ RankEquals(boosts, boosts[i], 90)
           /\ boosts[i] \notin Range(threshold_boosts)
    /\ threshold_boosts # <<>>

C4_WitnessAt95 ==
    /\ BoostsSelected
    /\ threshold = 95
    /\ \E i \in 1..Len(posts) :
           /\ RankEquals(posts, posts[i], 95)
           /\ posts[i] \notin Range(threshold_posts)
    /\ threshold_posts # <<>>

\* C5: the only item of a one-item list has percentile rank 100 and is
\* retained; an empty list yields an empty selection and no evaluation of
\* percentileofscore.
C5_Degenerate ==
    /\ PostsSelected /\ Len(posts) = 1 =>
           /\ percentileofscore(all_post_scores, posts[1].score)
                  = [num |-> 100, den |-> 1]
           /\ threshold_posts = posts
    /\ BoostsSelected /\ Len(boosts) = 1 =>
           /\ percentileofscore(all_boost_scores, boosts[1].score)
                  = [num |-> 100, den |-> 1]
           /\ threshold_boosts = boosts
    /\ PostsSelected /\ posts = <<>> =>
           /\ threshold_posts = <<>>
           /\ pc = "threshold_boosts" => percentile_calls = 0
    /\ BoostsSelected /\ boosts = <<>> =>
           /\ threshold_boosts = <<>>
           /\ percentile_calls = Len(posts)

\* A one-item posts list retained whole beside an empty boosts list.
C5_Witness ==
    /\ BoostsSelected
    /\ Len(posts) = 1
    /\ threshold_posts = posts
    /\ boosts = <<>>
    /\ threshold_boosts = <<>>
    /\ percentile_calls = 1

\* C6: a second selection with the same posts list and threshold retains the
\* same posts whatever the boosts list is, and one with the same boosts list
\* retains the same boosts whatever the posts list is.
C6_CategoryIsolation ==
    BoostsSelected /\ prev.run =>
        /\ prev.posts = posts => threshold_posts = prev.threshold_posts
        /\ prev.boosts = boosts => threshold_boosts = prev.threshold_boosts

\* The boosts list was replaced by one with other scores; posts are retained.
C6_Witness ==
    /\ BoostsSelected
    /\ prev.run
    /\ prev.posts = posts
    /\ ScoresOf(prev.boosts) # ScoresOf(boosts)
    /\ Len(boosts) = 2
    /\ threshold_posts # <<>>
    /\ threshold_posts = prev.threshold_posts

====
